---- MODULE Spec2Model ----
(***************************************************************************)
(* Model of the MKR-5 / DART gateway (mekser_fastapi/app).                 *)
(*                                                                         *)
(*   driver.py             calc_crc, DartDriver.transact / test_cmd        *)
(*   core.py               bcd_to_int, int_to_bcd, _parse_dc_frame,        *)
(*                         DC1Parser, PumpService                          *)
(*   api_extended.py       _price_to_bcd                                   *)
(*   pump_status_parser.py crc16_ccitt, build_frame, FrameExtractor        *)
(*   api.py                _not_found                                      *)
(*                                                                         *)
(* Bytes are integers 0..255, byte strings are sequences of bytes.         *)
(* The specifications share the variables:                                *)
(*   Spec       concurrent callers of the driver singleton, plain line     *)
(*   SpecSerial one caller, one call after another, any line behaviour     *)
(*   SpecAuthorize one caller, authorize with presets                      *)
(*   SpecDc1    DC1Parser.extract applied to drawn reply frames            *)
(*   SpecBcd    the BCD encoders and the decoder applied to drawn values   *)
(*   SpecFramer the frame extractors applied to drawn byte streams         *)
(***************************************************************************)
EXTENDS Integers, Sequences, FiniteSets, TLC

VARIABLES
    _seq,       \* DartDriver._seq: 0 or 128
    _lock,      \* DartDriver._lock: 0 when free, else the holding caller
    wire,       \* serial input buffer: bytes received and not yet read
    pc,         \* per caller: position in its call
    op,         \* per caller: the operation it runs
    seq,        \* per caller: transact's local seq
    tmp,        \* per caller: value of self._seq read by line 86
    attempts,   \* per caller: transact's local attempts
    buf,        \* per caller: transact's local buf
    wseq,       \* history, per caller: seq byte of each frame written in this call
    silent,     \* history, per caller: every attempt of this call read no bytes
    ntog,       \* history, per caller: stores to self._seq made by this call
    ncalls,     \* history: calls begun so far
    done,       \* history: the call that returned last (caller, locals, results)
    h_last,     \* history: seq byte of the transact call that returned before done, -1 if none
    h_ok,       \* history: seq byte of the transact call that succeeded before done, -1 if none
    b_kind, b_n, b_width, b_enc, b_dec, b_stage,   \* BCD codec under test
    fx_kind, fx_parts, fx_buf, fx_out, fx_stage,   \* frame extractor under test
    p_fn, p_in, p_out, p_stage,                    \* function under test: name, arguments, result
    last_states, events, sock,                     \* pump_events: cache, events sent, socket state
    poll_at,    \* pump_events: the pump id the for loop is at, 0 outside the loop
    polled      \* history: (pump id, data) of every return_status of pump_events

driverVars == <<_seq, _lock, wire, pc, op, seq, tmp, attempts, buf, wseq, silent,
                ntog, ncalls, done, h_last, h_ok>>
bcdVars    == <<b_kind, b_n, b_width, b_enc, b_dec, b_stage>>
framerVars == <<fx_kind, fx_parts, fx_buf, fx_out, fx_stage>>
pureVars   == <<p_fn, p_in, p_out, p_stage>>
pollVars   == <<last_states, events, sock, poll_at, polled>>
vars       == <<driverVars, bcdVars, framerVars, pureVars, pollVars>>

(***************************************************************************)
(* Byte-string helpers                                                     *)
(***************************************************************************)
Min(a, b) == IF a < b THEN a ELSE b

\* bytes.index(x, from): least 0-based position >= from holding x, -1 if none
IndexFrom(s, x, from) ==
    LET hits == {i \in from..(Len(s) - 1) : s[i + 1] = x}
    IN  IF hits = {} THEN -1 ELSE CHOOSE i \in hits : \A j \in hits : i <= j

\* python slice s[a:b] with 0 <= a, clipped at the end
Slice(s, a, b) ==
    LET e == Min(b, Len(s))
    IN  IF a >= e THEN <<>> ELSE SubSeq(s, a + 1, e)

Contains(s, x) == \E i \in 1..Len(s) : s[i] = x

\* a ^ b. The operands are bound as x, so each is evaluated once per level
RECURSIVE Xor(_, _)
Xor(a, b) ==
    CHOOSE r \in {IF x[1] = 0 THEN x[2]
                  ELSE IF x[2] = 0 THEN x[1]
                  ELSE (((x[1] % 2) + (x[2] % 2)) % 2) + 2 * Xor(x[1] \div 2, x[2] \div 2) :
                  x \in {<<a, b>>}} : TRUE

(***************************************************************************)
(* config.py, enums.py                                                     *)
(***************************************************************************)
CRC_POLY == 4129
CRC_INIT == 65535
STX == 2
ETX == 3
SF  == 250
CTRL_HOST_DATA == 240
SEQ_ON == 128
CD1 == 1
CD3 == 3
CD4 == 4
DC1 == 1
DCC_RETURN_STATUS == 0
DCC_RESET == 5
DCC_AUTHORIZE == 6
DCC_STOP == 8
ADDR_BASE == 80

(***************************************************************************)
(* driver.py: calc_crc                                                     *)
(***************************************************************************)
\* lines 39-43: n passes of the inner loop
RECURSIVE CrcBits(_, _)
CrcBits(crc, n) ==
    IF n = 0 THEN crc
    ELSE CHOOSE r \in {IF c >= 32768 THEN CrcBits(Xor(c * 2, CRC_POLY) % 65536, n - 1)
                       ELSE CrcBits((c * 2) % 65536, n - 1) : c \in {crc}} : TRUE

\* lines 37-43: crc after the bytes lo..hi of data, taken in order. The range
\* is halved so that the evaluation stays shallow for long frames
RECURSIVE CrcRange(_, _, _, _)
CrcRange(crc, data, lo, hi) ==
    IF lo > hi THEN crc
    ELSE IF lo = hi THEN CrcBits(Xor(crc, data[lo] * 256), 8)
    ELSE CHOOSE r \in {CrcRange(c, data, (lo + hi) \div 2 + 1, hi) :
                       c \in {CrcRange(crc, data, lo, (lo + hi) \div 2)}} : TRUE

\* lines 36-44: the loop over data, from the initial value crc
CrcFrom(crc, data) == CHOOSE r \in {CrcRange(crc, d, 1, Len(d)) : d \in {data}} : TRUE

calc_crc(data) == CrcFrom(CRC_INIT, data)

\* pump_status_parser.py: crc16_ccitt (init 0x0000)
crc16_ccitt(data) == CrcFrom(0, data)

(***************************************************************************)
(* core.py: bcd_to_int, int_to_bcd; api_extended.py: _price_to_bcd         *)
(***************************************************************************)
\* str(n) for n >= 0, as a sequence of decimal digits
RECURSIVE Digits(_)
Digits(n) == IF n < 10 THEN <<n>> ELSE Digits(n \div 10) \o <<n % 10>>

\* s.rjust(w, "0") and f"{value:0wd}" for value >= 0: pad, never cut
rjust(s, w) ==
    IF Len(s) >= w THEN s
    ELSE [i \in 1..w |-> IF i <= w - Len(s) THEN 0 ELSE s[i - (w - Len(s))]]

\* int(s) of a digit string
RECURSIVE DecInt(_)
DecInt(s) == IF s = <<>> THEN 0 ELSE DecInt(SubSeq(s, 1, Len(s) - 1)) * 10 + s[Len(s)]

int_to_bcd(n, width) ==
    LET s == rjust(Digits(n), width * 2)
    IN  [k \in 1..((Len(s) + 1) \div 2) |-> DecInt(Slice(s, 2 * (k - 1), 2 * k))]

RECURSIVE BcdAcc(_, _)
BcdAcc(res, b) ==
    IF b = <<>> THEN res
    ELSE BcdAcc(res * 100 + ((Head(b) \div 16) % 16) * 10 + (Head(b) % 16), Tail(b))

bcd_to_int(b) == BcdAcc(0, b)

\* value is int(round(price * 100)), the argument of the format at line 31
_price_to_bcd(value) ==
    LET digits == rjust(Digits(value), 6)
    IN  [k \in 1..3 |-> digits[2 * k - 1] * 16 + digits[2 * k]]

(***************************************************************************)
(* driver.py: frame construction and receive validation of transact        *)
(***************************************************************************)
\* Mutations: the frame carries the other value of seq; the stored bit is not
\* toggled; the loop admits a fourth attempt
BuildFrameOtherSeq(addr, sq, body) ==
    <<STX, addr, CTRL_HOST_DATA, SEQ_ON - sq, Len(body)>> \o body \o <<0, 0, ETX, SF>>

KeepSeq(s) == s

LoopCondFour(a) == a < 4

\* Mutation: the loop gives up after two attempts
LoopCondTwo(a) == a < 2

\* lines 82-92: STX, ADR, CTRL, SEQ, LNG, body, CRC-L, CRC-H, ETX, SF
BuildFrame(addr, sq, body) ==
    LET hdr == <<addr, CTRL_HOST_DATA, sq, Len(body)>> \o body
        crc == calc_crc(hdr)
    IN  <<STX>> \o hdr \o <<crc % 256, (crc \div 256) % 256>> \o <<ETX, SF>>

\* line 86
ToggleSeq(s) == IF s = 0 THEN SEQ_ON ELSE 0

\* line 97
LoopCond(a) == a < 3

\* line 126
CrcRegion(b, stx, etx) == Slice(b, stx + 1, etx - 1)

\* lines 115-140: what one attempt makes of the bytes it read
Validate(b) ==
    IF b = <<>> THEN "no_response"
    ELSE LET stx == IndexFrom(b, STX, 0)
             etx == IF stx = -1 THEN -1 ELSE IndexFrom(b, ETX, stx + 1)
         IN  IF stx = -1 \/ etx = -1 THEN "malformed"
             ELSE IF calc_crc(CrcRegion(b, stx, etx)) # 0 THEN "crc"
             ELSE "ok"

\* lines 105-113: what the read phase collects when the first k bytes of w
\* arrive before it ends. Without ETX among them the timeout ends it; else
\* the chunk holding the first ETX ends it, and one more byte is read when
\* buf does not end in SF
ReadAt(w, k) ==
    LET p == SubSeq(w, 1, k)
    IN  IF Contains(p, ETX) /\ p[k] # SF /\ k < Len(w) THEN SubSeq(w, 1, k + 1) ELSE p

ReadResults(w) == {ReadAt(w, k) : k \in 0..Len(w)}

\* lines 206-208
test_frame == <<81, 240, 0, 3, 1, 1, 0, 89, 173, 3, 250>>

(***************************************************************************)
(* Values the service and the request handlers return                      *)
(***************************************************************************)
NoneVal       == [kind |-> "None", val |-> 0]
EmptyDict     == [kind |-> "dict", val |-> -1]             \* {}
StatusDict(s) == [kind |-> "dict", val |-> s]              \* {"status": s}
IntVal(s)     == [kind |-> "int", val |-> s]
Http504       == [kind |-> "HTTPException", val |-> 504]
Http400       == [kind |-> "HTTPException", val |-> 400]
AttrError     == [kind |-> "AttributeError", val |-> 0]
NoOutcome     == [kind |-> "pending", val |-> 0]

\* Mutation: every returned value counts as a response
TruthyAll(d) == TRUE

\* python truthiness of a returned value
Truthy(d) == \/ d.kind = "dict" /\ d.val # -1
             \/ d.kind = "int" /\ d.val # 0

(***************************************************************************)
(* core.py: DC1Parser.extract                                              *)
(***************************************************************************)
\* lines 233-243: the records of frame, -1 when none is a status
RECURSIVE DC1Records(_, _, _)
DC1Records(frame, lng, off) ==
    IF ~(off < 5 + lng) THEN -1
    ELSE LET trans  == frame[off + 1]
             length == frame[off + 2]
         IN  IF trans = DC1 /\ length >= 1 THEN frame[off + 3]
             ELSE DC1Records(frame, lng, off + 2 + length)

\* lines 214-249: the status the candidate raw yields, -1 when none
DC1Candidate(raw) ==
    IF ~(Len(raw) >= 9 /\ raw[Len(raw) - 1] = ETX) THEN -1
    ELSE LET lng      == raw[5]
             full_len == 1 + 1 + 1 + 1 + 1 + lng + 2 + 1 + 1
         IN  IF ~(Len(raw) >= full_len) THEN -1
             ELSE LET frame == Slice(raw, 0, full_len)
                      hdr   == Slice(frame, 1, 5 + lng)
                      got   == frame[7 + lng] * 256 + frame[6 + lng]
                  IN  IF calc_crc(hdr) = got THEN DC1Records(frame, lng, 5) ELSE -1

\* lines 204-254
RECURSIVE DC1Extract(_, _)
DC1Extract(b, ndx) ==
    LET stx == IndexFrom(b, STX, ndx)
        end == IF stx = -1 THEN -1 ELSE IndexFrom(b, SF, stx + 1)
    IN  IF stx = -1 \/ end = -1 THEN NoneVal
        ELSE LET st == DC1Candidate(Slice(b, stx, end + 1))
             IN  IF st # -1 THEN IntVal(st) ELSE DC1Extract(b, end + 1)

(***************************************************************************)
(* core.py: PumpService._parse_dc_frame                                    *)
(***************************************************************************)
\* Mutation: after a candidate only the bytes up to its STX are deleted
RECURSIVE ExtractorFramesKeepTail(_, _)
ExtractorFramesKeepTail(b, out) ==
    LET idx == IndexFrom(b, STX, 0)
    IN  IF idx = -1 THEN [out |-> out, buf |-> b]
        ELSE IF idx < 2 THEN ExtractorFramesKeepTail(Slice(b, idx + 1, Len(b)), out)
        ELSE LET end == IndexFrom(b, SF, idx + 1)
             IN  IF end = -1 THEN [out |-> out, buf |-> b]
                 ELSE ExtractorFramesKeepTail(Slice(b, idx + 1, Len(b)),
                                              Append(out, Slice(b, idx - 2, end + 1)))

\* lines 77-97: _Extractor.frames on buffer b, candidates so far in out
RECURSIVE ExtractorFrames(_, _)
ExtractorFrames(b, out) ==
    LET idx == IndexFrom(b, STX, 0)
    IN  IF idx = -1 THEN [out |-> out, buf |-> b]
        ELSE IF idx < 2 THEN ExtractorFrames(Slice(b, idx + 1, Len(b)), out)
        ELSE LET end == IndexFrom(b, SF, idx + 1)
             IN  IF end = -1 THEN [out |-> out, buf |-> b]
                 ELSE ExtractorFrames(Slice(b, end + 1, Len(b)),
                                      Append(out, Slice(b, idx - 2, end + 1)))

\* lines 100-122; PumpService has no crc16_ccitt, so line 112 raises
ParseSingle(raw) ==
    IF Len(raw) < 9 THEN EmptyDict
    ELSE IF raw[3] # 2 \/ raw[Len(raw) - 1] # 3 \/ raw[Len(raw)] # 250 THEN EmptyDict
    ELSE IF Len(raw) < 5 + raw[5] + 4 THEN EmptyDict
    ELSE AttrError

\* lines 126-132
RECURSIVE FirstResp(_)
FirstResp(raws) ==
    IF raws = <<>> THEN EmptyDict
    ELSE LET resp == ParseSingle(Head(raws))
         IN  IF resp = AttrError \/ Truthy(resp) THEN resp ELSE FirstResp(Tail(raws))

_parse_dc_frame(frame) == FirstResp(ExtractorFrames(frame, <<>>).out)

(***************************************************************************)
(* pump_status_parser.py: build_frame, FrameExtractor.get_frames           *)
(***************************************************************************)
\* lines 60-63: ADR, CTRL, STX, TRANS, LNG, payload, CRC-L, CRC-H, ETX, SF
build_frame(addr, trans, payload, tx) ==
    LET hdr == <<addr, 128 + (tx % 16), STX, trans, Len(payload)>> \o payload
        crc == crc16_ccitt(hdr)
    IN  hdr \o <<crc % 256, (crc \div 256) % 256, ETX, SF>>

\* Mutation: the candidate starts at the head of the buffer, not at STX - 2
RECURSIVE get_frames_from_head(_, _)
get_frames_from_head(b, frames) ==
    LET idx == IndexFrom(b, STX, 0)
    IN  IF idx = -1 THEN [out |-> frames, buf |-> <<>>]
        ELSE IF idx < 2 THEN get_frames_from_head(Slice(b, idx + 1, Len(b)), frames)
        ELSE LET end == IndexFrom(b, SF, idx)
             IN  IF end = -1 THEN [out |-> frames, buf |-> b]
                 ELSE get_frames_from_head(Slice(b, end + 1, Len(b)),
                                           Append(frames, Slice(b, 0, end + 1)))

\* lines 74-93
RECURSIVE get_frames(_, _)
get_frames(b, frames) ==
    LET idx == IndexFrom(b, STX, 0)
    IN  IF idx = -1 THEN [out |-> frames, buf |-> <<>>]
        ELSE IF idx < 2 THEN get_frames(Slice(b, idx + 1, Len(b)), frames)
        ELSE LET end == IndexFrom(b, SF, idx)
             IN  IF end = -1 THEN [out |-> frames, buf |-> b]
                 ELSE get_frames(Slice(b, end + 1, Len(b)),
                                 Append(frames, Slice(b, idx - 2, end + 1)))

(***************************************************************************)
(* core.py, api.py: the operations and their request handlers              *)
(***************************************************************************)
\* api.py lines 14-17
_not_found(data) == IF ~Truthy(data) THEN Http504 ELSE data

\* core.py lines 142-149
return_status(frame) ==
    LET status == DC1Extract(frame, 0)
    IN  IF status = NoneVal THEN EmptyDict ELSE status

\* core.py lines 139-149, 164-178: what the operation o returns, given what
\* driver.cd1 returned
Decoded(o, frame) ==
    IF o = "return_status" THEN return_status(frame) ELSE _parse_dc_frame(frame)

\* api.py get_status / authorize / stop / reset: an exception of the service
\* passes through, else _not_found decides
Handler(o, frame) ==
    LET data == Decoded(o, frame)
    IN  IF data = AttrError THEN AttrError ELSE _not_found(data)

\* the DCC byte of the CD1 record each operation sends
Dcc(o) ==
    CASE o = "return_status" -> DCC_RETURN_STATUS
      [] o = "authorize"     -> DCC_AUTHORIZE
      [] o = "stop"          -> DCC_STOP
      [] o = "reset"         -> DCC_RESET

(***************************************************************************)
(* api_extended.py: the records of allow_nozzles and update_price           *)
(***************************************************************************)
CD2        == 2
CD5        == 5
NOZZLE_MAX == 16

ValueErr      == [kind |-> "ValueError", val |-> 0]
BlockVal(b)   == [kind |-> "block", val |-> b]

\* dict.get(k, d)
Get(m, k, d) == IF k \in DOMAIN m THEN m[k] ELSE d

\* api_extended.py lines 55-57: the entries of nozzles nz..16, in that order
RECURSIVE PricePayload(_, _)
PricePayload(price_map, nz) ==
    IF nz > NOZZLE_MAX THEN <<>>
    ELSE _price_to_bcd(Get(price_map, nz, 0)) \o PricePayload(price_map, nz + 1)

\* api_extended.py line 59
PriceBlock(price_map) ==
    LET payload == PricePayload(price_map, 1)
    IN  <<CD5, Len(payload)>> \o payload

\* api_extended.py line 52: a key outside 1..16
BadPriceKeys(price_map) == \E n \in DOMAIN price_map : ~(1 <= n /\ n <= NOZZLE_MAX)

\* api_extended.py line 43: an empty list or a number outside 1..16
BadNozzles(nozzles) ==
    nozzles = <<>> \/ \E i \in 1..Len(nozzles) : ~(1 <= nozzles[i] /\ nozzles[i] <= NOZZLE_MAX)

\* api_extended.py line 45
AllowBlock(nozzles) == <<CD2, Len(nozzles)>> \o nozzles

(***************************************************************************)
(* Bounds and inputs of the driver specifications                          *)
(***************************************************************************)
NCallers == 2
MaxCalls == 3
Callers  == 1..NCallers
\* the operations, named by the transact call they are about to make:
\* authorize with a preset first sends the preset (core.py lines 158-165)
PresetOps   == {"authorize+volume", "authorize+amount", "authorize+both"}
\* api_extended.py lines 42, 51: allow_nozzles and update_price with their input
AllowOps == {"allow_nozzles[1,2]", "allow_nozzles[]", "allow_nozzles[0]", "allow_nozzles[2,17]"}
PriceOps == {"update_price{1}", "update_price{17}"}
ExtOps   == AllowOps \cup PriceOps
TransactOps == {"return_status", "authorize", "stop", "reset"} \cup PresetOps \cup ExtOps
Ops      == TransactOps \cup {"test_cmd"}

\* core.py lines 159, 163: the presets of the requests, scaled by 100
v_int == 1000
a_int == 2500

\* core.py lines 158-167, api_extended.py lines 46-47, 60-61: what the operation
\* goes on to once this call returned
NextOp(o) ==
    CASE o = "authorize+both"   -> "authorize+amount"
      [] o \in ExtOps           -> "return_status"
      [] o = "authorize+volume" -> "authorize"
      [] o = "authorize+amount" -> "authorize"
      [] OTHER                  -> "none"

\* the arguments of the extended operations
Nozzles(o) ==
    CASE o = "allow_nozzles[1,2]"  -> <<1, 2>>
      [] o = "allow_nozzles[]"     -> <<>>
      [] o = "allow_nozzles[0]"    -> <<0>>
      [] o = "allow_nozzles[2,17]" -> <<2, 17>>

PriceMap(o) ==
    CASE o = "update_price{1}"  -> [n \in {1} |-> 5250]
      [] o = "update_price{17}" -> [n \in {17} |-> 5250]

\* driver.py lines 189-203, api_extended.py lines 45, 59: the records cd1,
\* cd3_preset_volume, cd4_preset_amount, allow_nozzles and update_price pass
\* to transact
Body(o) ==
    CASE o \in {"authorize+volume", "authorize+both"} -> <<CD3, 4>> \o int_to_bcd(v_int, 4)
      [] o = "authorize+amount"                       -> <<CD4, 4>> \o int_to_bcd(a_int, 4)
      [] o \in AllowOps                               -> AllowBlock(Nozzles(o))
      [] o \in PriceOps                               -> PriceBlock(PriceMap(o))
      [] OTHER                                        -> <<CD1, 1, Dcc(o)>>

\* Mutation: the handler checks nothing
RejectsNothing(o) == FALSE

\* api.py lines 63-64: both presets given
RejectsBoth(o) == o = "authorize+both"

\* Mutation: the nozzle numbers are not checked
AcceptsNozzles(o) == FALSE

\* api_extended.py lines 43-44, 52-53: ValueError before the record is built
RejectsNozzles(o) ==
    \/ o \in AllowOps /\ BadNozzles(Nozzles(o))
    \/ o \in PriceOps /\ BadPriceKeys(PriceMap(o))

Addr(pump_id) == ADDR_BASE + pump_id

\* driver.py lines 189-203: the frame transact builds for pump 1, for each
\* operation and value of seq
FrameTable ==
    [o \in TransactOps, sq \in {0, SEQ_ON} |-> BuildFrame(Addr(1), sq, Body(o))]

Frame(o, sq) == FrameTable[o, sq]

\* Byte strings the line may deliver after a frame was written
NoEtx           == <<2, 81>>
AcceptedShort   == <<2, 255, 255, 85, 3, 250>>
AcceptedStatus0 ==
    LET hdr == <<255, 255, 0, 3, DC1, 1, 0>>
        crc == calc_crc(hdr)
    IN  <<STX>> \o hdr \o <<crc % 256, (crc \div 256) % 256, ETX, SF>>
AcceptedStatus2 ==
    LET hdr == <<255, 255, 0, 3, DC1, 1, 2>>
        crc == calc_crc(hdr)
    IN  <<STX>> \o hdr \o <<crc % 256, (crc \div 256) % 256, ETX, SF>>
ResidueZero ==
    LET hdr == <<81, 240, 0, 0>>
        crc == calc_crc(hdr)
    IN  <<STX>> \o hdr \o <<(crc \div 256) % 256, crc % 256, ETX, SF>>

\* a status record sent by pump 2, its CRC high byte first and a pad byte after
OtherPumpStatus5 ==
    LET hdr == <<Addr(2), CTRL_HOST_DATA, 0, 4, DC1, 2, 5>>
        crc == calc_crc(hdr)
    IN  <<STX>> \o hdr \o <<(crc \div 256) % 256, crc % 256, 0, ETX, SF>>

\* What the line can do after a write.  A "faulty" line: silence, a frame cut
\* before its end marker, the echo of the written frame, and the frames above
\* (the answer of another pump among them), read up to any byte.  A "plain"
\* line: silence or one short frame, read whole.
\* A "pump" line: silence, the short frame or a status frame, read whole.
Responses(line, frame) ==
    IF line = "faulty"
    THEN {<<>>, NoEtx, frame, AcceptedShort, AcceptedStatus0, AcceptedStatus2, ResidueZero,
          OtherPumpStatus5}
    ELSE IF line = "pump" THEN {<<>>, AcceptedShort, AcceptedStatus2}
    ELSE {<<>>, AcceptedShort}

Arrived(line, w) == IF line = "faulty" THEN ReadResults(w) ELSE {w}

\* the operations requested on each line: authorize with presets on "pump",
\* authorize with a volume next to other requests on "shared"
OpsOn(line) ==
    IF line = "faulty" THEN Ops \ (PresetOps \cup ExtOps)
    ELSE IF line = "pump" THEN PresetOps \cup {"authorize", "return_status", "test_cmd"}
    ELSE IF line = "ext" THEN ExtOps \cup {"return_status", "test_cmd"}
    ELSE IF line = "shared" THEN {"authorize+volume", "return_status", "test_cmd"}
    ELSE {"return_status", "test_cmd"}

(***************************************************************************)
(* Initial state: the driver singleton after __init__ (lines 57-70)        *)
(***************************************************************************)
NoCall ==
    [t |-> 0, op |-> "none", seq |-> 0, ret |-> <<>>, outcome |-> NoOutcome,
     how |-> "none", wseq |-> <<>>, silent |-> FALSE, ntog |-> 0]

DriverInit ==
    /\ _seq = 0
    /\ _lock = 0
    /\ wire = <<>>
    /\ pc = [t \in Callers |-> "idle"]
    /\ op = [t \in Callers |-> "none"]
    /\ seq = [t \in Callers |-> 0]
    /\ tmp = [t \in Callers |-> 0]
    /\ attempts = [t \in Callers |-> 0]
    /\ buf = [t \in Callers |-> <<>>]
    /\ wseq = [t \in Callers |-> <<>>]
    /\ silent = [t \in Callers |-> TRUE]
    /\ ntog = [t \in Callers |-> 0]
    /\ ncalls = 0
    /\ done = NoCall
    /\ h_last = -1
    /\ h_ok = -1

BcdIdle ==
    /\ b_kind = "none" /\ b_n = 0 /\ b_width = 0
    /\ b_enc = <<>> /\ b_dec = 0 /\ b_stage = "off"

FramerIdle ==
    /\ fx_kind = "none" /\ fx_parts = <<>> /\ fx_buf = <<>>
    /\ fx_out = <<>> /\ fx_stage = "off"

PureIdle == p_fn = "none" /\ p_in = <<>> /\ p_out = <<>> /\ p_stage = "off"

PollIdle ==
    last_states = <<>> /\ events = <<>> /\ sock = "off" /\ poll_at = 0 /\ polled = <<>>

Init == DriverInit /\ BcdIdle /\ FramerIdle /\ PureIdle /\ PollIdle

\* the call in done becomes the call before the next one to return
IsTransact(d) == d.op \in TransactOps /\ d.how # "rejected"

Archive ==
    /\ h_last' = IF IsTransact(done) THEN done.seq ELSE h_last
    /\ h_ok' = IF IsTransact(done) /\ done.ret # <<>> THEN done.seq ELSE h_ok

\* api.py lines 63-64: HTTPException(400) before the service is called;
\* api_extended.py lines 43-44, 52-53: ValueError before transact is called
Rejected(t, o) ==
    [t |-> t, op |-> o, seq |-> 0, ret |-> <<>>,
     outcome |-> IF RejectsBoth(o) THEN Http400 ELSE ValueErr,
     how |-> "rejected", wseq |-> <<>>, silent |-> FALSE, ntog |-> 0]

(***************************************************************************)
(* A caller starts an operation; the handler of the call that returned     *)
(* last has answered its request                                           *)
(***************************************************************************)
Begin(t, line) ==
    /\ pc[t] = "idle"
    /\ \E o \in OpsOn(line) :
          IF RejectsBoth(o) \/ RejectsNozzles(o)
          THEN /\ done' = Rejected(t, o)
               /\ UNCHANGED <<op, pc>>
          ELSE /\ op' = [op EXCEPT ![t] = o]
               /\ pc' = [pc EXCEPT ![t] = IF o = "test_cmd" THEN "tc_lock" ELSE "t_seq"]
               /\ done' = NoCall
    /\ Archive
    /\ UNCHANGED <<_seq, _lock, wire, seq, tmp, attempts, buf, wseq, silent, ntog>>
    /\ UNCHANGED <<bcdVars, framerVars, pureVars, pollVars>>

\* one of the MaxCalls calls the safety specifications follow
Call(t, line) ==
    /\ ncalls < MaxCalls
    /\ ncalls' = ncalls + 1
    /\ Begin(t, line)

\* a call that is not counted: callers call again and again
CallAny(t, line) ==
    /\ ncalls' = ncalls
    /\ Begin(t, line)

(***************************************************************************)
(* DartDriver.transact                                                     *)
(***************************************************************************)
\* line 85: seq = self._seq
ReadSeq(t) ==
    /\ pc[t] = "t_seq"
    /\ seq' = [seq EXCEPT ![t] = _seq]
    /\ pc' = [pc EXCEPT ![t] = "t_tog"]
    /\ UNCHANGED <<_seq, _lock, wire, op, tmp, attempts, buf, wseq, silent, ntog,
                   ncalls, done, h_last, h_ok>>
    /\ UNCHANGED <<bcdVars, framerVars, pureVars, pollVars>>

\* line 86, the read of self._seq
ToggleRead(t) ==
    /\ pc[t] = "t_tog"
    /\ tmp' = [tmp EXCEPT ![t] = _seq]
    /\ pc' = [pc EXCEPT ![t] = "t_set"]
    /\ UNCHANGED <<_seq, _lock, wire, op, seq, attempts, buf, wseq, silent, ntog,
                   ncalls, done, h_last, h_ok>>
    /\ UNCHANGED <<bcdVars, framerVars, pureVars, pollVars>>

\* line 86, the store to self._seq
ToggleWrite(t) ==
    /\ pc[t] = "t_set"
    /\ _seq' = ToggleSeq(tmp[t])
    /\ ntog' = [ntog EXCEPT ![t] = @ + 1]
    /\ tmp' = [tmp EXCEPT ![t] = 0]
    /\ pc' = [pc EXCEPT ![t] = "t_lock"]
    /\ UNCHANGED <<_lock, wire, op, seq, attempts, buf, wseq, silent, ncalls, done,
                   h_last, h_ok>>
    /\ UNCHANGED <<bcdVars, framerVars, pureVars, pollVars>>

\* Mutations: the lock never blocks; the lock is never granted
LockIgnored == TRUE

LockNever == FALSE

\* threading.Lock: acquirable when nobody holds it
LockFree == _lock = 0

\* lines 95-96: attempts = 0; with self._lock
Acquire(t) ==
    /\ pc[t] = "t_lock"
    /\ LockFree
    /\ _lock' = t
    /\ attempts' = [attempts EXCEPT ![t] = 0]
    /\ pc' = [pc EXCEPT ![t] = "t_loop"]
    /\ UNCHANGED <<_seq, wire, op, seq, tmp, buf, wseq, silent, ntog, ncalls, done,
                   h_last, h_ok>>
    /\ UNCHANGED <<bcdVars, framerVars, pureVars, pollVars>>

\* lines 97-100: reset_input_buffer, write(frame), flush; the line answers
Write(t, line) ==
    /\ pc[t] = "t_loop"
    /\ LoopCond(attempts[t])
    /\ LET frame == Frame(op[t], seq[t])
       IN  /\ wire' \in Responses(line, frame)
           /\ wseq' = [wseq EXCEPT ![t] = Append(@, frame[4])]
    /\ pc' = [pc EXCEPT ![t] = "t_read"]
    /\ UNCHANGED <<_seq, _lock, op, seq, tmp, attempts, buf, silent, ntog, ncalls,
                   done, h_last, h_ok>>
    /\ UNCHANGED <<bcdVars, framerVars, pureVars, pollVars>>

\* lines 102-113: the read phase; bytes that had not arrived when it ended
\* are not delivered later
Read(t, line) ==
    /\ pc[t] = "t_read"
    /\ \E b \in Arrived(line, wire) :
          /\ buf' = [buf EXCEPT ![t] = b]
          /\ silent' = [silent EXCEPT ![t] = @ /\ b = <<>>]
    /\ wire' = <<>>
    /\ pc' = [pc EXCEPT ![t] = "t_check"]
    /\ UNCHANGED <<_seq, _lock, op, seq, tmp, attempts, wseq, ntog, ncalls, done,
                   h_last, h_ok>>
    /\ UNCHANGED <<bcdVars, framerVars, pureVars, pollVars>>

\* the call that returns r to caller t, with what the request handler makes of
\* it (core.py lines 139-149, 164-178, api.py lines 14-17)
Returned(t, r) ==
    [t |-> t, op |-> op[t], seq |-> seq[t], ret |-> r,
     outcome |-> IF op[t] = "test_cmd" \/ NextOp(op[t]) # "none" THEN NoOutcome
                 ELSE Handler(op[t], r),
     how |-> IF op[t] = "test_cmd" THEN "test"
             ELSE IF r = <<>> THEN "exhausted"
             ELSE IF NextOp(op[t]) # "none" THEN "preset"
             ELSE IF Decoded(op[t], r) = EmptyDict THEN "no_records"
             ELSE IF Decoded(op[t], r) = AttrError THEN "raised"
             ELSE "decoded",
     wseq |-> wseq[t], silent |-> silent[t], ntog |-> ntog[t]]

\* Mutation: leaving the with block keeps the lock
KeepLock(t) == t

\* lines 96, 140, 143, 213-221: leaving the with block releases the lock
Release(t) == 0

\* the caller's locals are gone; the call before it becomes history; authorize
\* goes on from its preset to the next call of transact
Leave(t, r) ==
    /\ done' = Returned(t, r)
    /\ Archive
    /\ pc' = [pc EXCEPT ![t] = IF NextOp(op[t]) # "none" THEN "t_seq" ELSE "idle"]
    /\ op' = [op EXCEPT ![t] = NextOp(op[t])]
    /\ seq' = [seq EXCEPT ![t] = 0]
    /\ attempts' = [attempts EXCEPT ![t] = 0]
    /\ buf' = [buf EXCEPT ![t] = <<>>]
    /\ wseq' = [wseq EXCEPT ![t] = <<>>]
    /\ silent' = [silent EXCEPT ![t] = TRUE]
    /\ ntog' = [ntog EXCEPT ![t] = 0]
    /\ _lock' = Release(t)

\* lines 115-137: no bytes, a malformed frame or a CRC mismatch: the attempt
\* counts, the loop goes on after the sleep
Retry(t) ==
    /\ pc[t] = "t_check"
    /\ Validate(buf[t]) # "ok"
    /\ attempts' = [attempts EXCEPT ![t] = @ + 1]
    /\ buf' = [buf EXCEPT ![t] = <<>>]
    /\ pc' = [pc EXCEPT ![t] = "t_loop"]
    /\ UNCHANGED <<_seq, _lock, wire, op, seq, tmp, wseq, silent, ntog, ncalls, done,
                   h_last, h_ok>>
    /\ UNCHANGED <<bcdVars, framerVars, pureVars, pollVars>>

\* lines 121-140: the frame passes, the lock is released, bytes(buf) returned
Accept(t) ==
    /\ pc[t] = "t_check"
    /\ Validate(buf[t]) = "ok"
    /\ Leave(t, buf[t])
    /\ UNCHANGED <<_seq, wire, tmp, ncalls>>
    /\ UNCHANGED <<bcdVars, framerVars, pureVars, pollVars>>

\* lines 97, 142-143: the loop ends, the lock is released, b"" is returned
Exhaust(t) ==
    /\ pc[t] = "t_loop"
    /\ ~LoopCond(attempts[t])
    /\ Leave(t, <<>>)
    /\ UNCHANGED <<_seq, wire, tmp, ncalls>>
    /\ UNCHANGED <<bcdVars, framerVars, pureVars, pollVars>>

(***************************************************************************)
(* DartDriver.test_cmd (lines 205-221)                                     *)
(***************************************************************************)
TcAcquire(t) ==
    /\ pc[t] = "tc_lock"
    /\ LockFree
    /\ _lock' = t
    /\ pc' = [pc EXCEPT ![t] = "tc_write"]
    /\ UNCHANGED <<_seq, wire, op, seq, tmp, attempts, buf, wseq, silent, ntog,
                   ncalls, done, h_last, h_ok>>
    /\ UNCHANGED <<bcdVars, framerVars, pureVars, pollVars>>

\* lines 213-214: write(test_frame), flush; the line answers
TcWrite(t, line) ==
    /\ pc[t] = "tc_write"
    /\ \E w \in Responses(line, test_frame) : wire' = wire \o w
    /\ pc' = [pc EXCEPT ![t] = "tc_read"]
    /\ UNCHANGED <<_seq, _lock, op, seq, tmp, attempts, buf, wseq, silent, ntog,
                   ncalls, done, h_last, h_ok>>
    /\ UNCHANGED <<bcdVars, framerVars, pureVars, pollVars>>

\* lines 217-221: sleep, read(64), the lock is released, res returned
TcRead(t) ==
    /\ pc[t] = "tc_read"
    /\ wire' = Slice(wire, 64, Len(wire))
    /\ Leave(t, Slice(wire, 0, 64))
    /\ UNCHANGED <<_seq, tmp, ncalls>>
    /\ UNCHANGED <<bcdVars, framerVars, pureVars, pollVars>>

Step(t, line) ==
    \/ ReadSeq(t) \/ ToggleRead(t) \/ ToggleWrite(t) \/ Acquire(t)
    \/ Write(t, line) \/ Read(t, line) \/ Retry(t) \/ Accept(t) \/ Exhaust(t)
    \/ TcAcquire(t) \/ TcWrite(t, line) \/ TcRead(t)

\* concurrent callers on a plain line
Next == \E t \in Callers : Call(t, "plain") \/ Step(t, "plain")

Spec == Init /\ [][Next]_vars

\* one caller, one call after another, on a faulty line
NextSerial == Call(1, "faulty") \/ Step(1, "faulty")

SpecSerial == Init /\ [][NextSerial]_vars

\* one caller, one request after another, authorize with presets among them
NextAuthorize == Call(1, "pump") \/ Step(1, "pump")

SpecAuthorize == Init /\ [][NextAuthorize]_vars

\* concurrent callers that never stop calling. A step of a call that can be
\* taken is taken (the thread is scheduled, the clock ends every read phase
\* and every sleep); a caller that finds the lock free again and again gets it
NextLive == \E t \in Callers : CallAny(t, "plain") \/ Step(t, "plain")

SpecLive ==
    /\ Init /\ [][NextLive]_vars
    /\ \A t \in Callers : SF_vars(Step(t, "plain"))

\* one caller of the extended service
NextExt == Call(1, "ext") \/ Step(1, "ext")

SpecExt == Init /\ [][NextExt]_vars

(***************************************************************************)
(* SpecBcd: int_to_bcd / _price_to_bcd applied to a drawn value, then      *)
(* bcd_to_int applied to the bytes                                         *)
(***************************************************************************)
MaxVal   == 120
MaxWidth == 4
\* values around the capacity of width 4 (presets) and width 3 (prices)
BigValues   == {99999999, 100000000, 123456789}
PriceValues == {0, 5250, 999999, 1000000, 1234567}

\* bytes the encoder of kind k is meant to fill: width, 3 for a price
Width(k, width) == IF k = "_price_to_bcd" THEN 3 ELSE width

InitBcd ==
    /\ DriverInit /\ FramerIdle /\ PureIdle /\ PollIdle
    /\ \/ /\ b_kind = "int_to_bcd"
          /\ b_n \in (0..MaxVal) \cup BigValues
          /\ b_width \in 1..MaxWidth
       \/ /\ b_kind = "_price_to_bcd"
          /\ b_n \in PriceValues
          /\ b_width = 3
    /\ b_enc = <<>> /\ b_dec = 0 /\ b_stage = "drawn"

\* core.py lines 21-23, api_extended.py lines 28-32: neither raises for a
\* non-negative value
Encode ==
    /\ b_stage = "drawn"
    /\ b_enc' = IF b_kind = "int_to_bcd" THEN int_to_bcd(b_n, b_width)
                ELSE _price_to_bcd(b_n)
    /\ b_stage' = "encoded"
    /\ UNCHANGED <<b_kind, b_n, b_width, b_dec>>
    /\ UNCHANGED <<driverVars, framerVars, pureVars, pollVars>>

\* core.py lines 15-19
Decode ==
    /\ b_stage = "encoded"
    /\ b_dec' = bcd_to_int(b_enc)
    /\ b_stage' = "decoded"
    /\ UNCHANGED <<b_kind, b_n, b_width, b_enc>>
    /\ UNCHANGED <<driverVars, framerVars, pureVars, pollVars>>

NextBcd == Encode \/ Decode

SpecBcd == InitBcd /\ [][NextBcd]_vars

(***************************************************************************)
(* SpecFramer: noise + F1 + garbage + F2 fed to a frame extractor          *)
(***************************************************************************)
MaxNoise   == 3
MaxGarbage == 2
NoiseBytes == {0, STX, SF}

BytesUpTo(n) == UNION {[1..k -> NoiseBytes] : k \in 0..n}

\* frames as build_frame makes them; the third carries 0xFA as its data byte
ValidFrames ==
    {build_frame(81, 1, <<0>>, 1), build_frame(82, 1, <<2>>, 2),
     build_frame(81, 3, <<250>>, 1)}

InitFramer ==
    /\ DriverInit /\ BcdIdle /\ PureIdle /\ PollIdle
    /\ fx_kind \in {"_Extractor", "FrameExtractor"}
    /\ fx_parts \in [noise : BytesUpTo(MaxNoise), f1 : ValidFrames,
                     garbage : BytesUpTo(MaxGarbage), f2 : ValidFrames]
    /\ fx_buf = <<>> /\ fx_out = <<>> /\ fx_stage = "new"

\* core.py lines 75-76, pump_status_parser.py lines 71-72: feed(data)
Feed ==
    /\ fx_stage = "new"
    /\ fx_buf' = fx_buf \o fx_parts.noise \o fx_parts.f1 \o fx_parts.garbage \o fx_parts.f2
    /\ fx_stage' = "fed"
    /\ UNCHANGED <<fx_kind, fx_parts, fx_out>>
    /\ UNCHANGED <<driverVars, bcdVars, pureVars, pollVars>>

\* core.py lines 77-97: frames(); pump_status_parser.py lines 74-93: get_frames()
Frames ==
    /\ fx_stage = "fed"
    /\ LET r == IF fx_kind = "_Extractor" THEN ExtractorFrames(fx_buf, <<>>)
                ELSE get_frames(fx_buf, <<>>)
       IN  /\ fx_out' = r.out
           /\ fx_buf' = r.buf
    /\ fx_stage' = "extracted"
    /\ UNCHANGED <<fx_kind, fx_parts>>
    /\ UNCHANGED <<driverVars, bcdVars, pureVars, pollVars>>

NextFramer == Feed \/ Frames

SpecFramer == InitFramer /\ [][NextFramer]_vars

(***************************************************************************)
(* Properties                                                              *)
(***************************************************************************)
TransactDone == IsTransact(done)
AllSeq(ws, b) == \A k \in 1..Len(ws) : ws[k] = b

\* the bytes of f between its first STX and the ETX that follows, ADR through
\* CRC-H inclusive
AddrToCrcHi(f) ==
    LET stx == IndexFrom(f, STX, 0)
        etx == IF stx = -1 THEN -1 ELSE IndexFrom(f, ETX, stx + 1)
    IN  IF stx = -1 \/ etx = -1 THEN <<>> ELSE Slice(f, stx + 1, etx)

\* C1: a transact call whose every attempt read no bytes has written its frame
\* exactly 3 times and returned b"" (retries exhausted); while such a call
\* runs it has never written more than 3 times.
C1_RetryBound ==
    /\ \A t \in Callers : silent[t] => Len(wseq[t]) <= 3
    /\ (TransactDone /\ done.silent) =>
           (Len(done.wseq) = 3 /\ done.ret = <<>> /\ done.how = "exhausted")

C1_Witness == TransactDone /\ done.silent /\ Len(done.wseq) = 3 /\ done.ret = <<>>

\* C2: with concurrent callers of transact and test_cmd at most one caller is
\* between acquiring the channel and the end of its last read / validation,
\* and that caller holds the lock; bytes are in flight only for it.
InChannel(t) == pc[t] \in {"t_loop", "t_read", "t_check", "tc_write", "tc_read"}

C2_MutualExclusion ==
    /\ \A t, u \in Callers : (InChannel(t) /\ InChannel(u)) => t = u
    /\ \A t \in Callers : InChannel(t) => _lock = t
    /\ wire # <<>> => \E t \in Callers : InChannel(t)

C2_Witness ==
    \E t, u \in Callers :
        /\ t # u
        /\ pc[t] = "t_read" /\ wire # <<>>
        /\ pc[u] \in {"t_lock", "tc_lock"}

\* C3 (as stated): the frames of consecutive successful transact calls carry
\* alternating sequence bits, whatever failed calls happened in between.
C3_SuccessfulAlternate ==
    (TransactDone /\ done.ret # <<>> /\ h_ok # -1) => done.seq # h_ok

\* C3 (amended): the frames of consecutive transact calls, made one after
\* another, carry alternating sequence bits whether the calls succeed or fail
\* and whatever the number of retries inside each.
C3_ConsecutiveAlternate ==
    (TransactDone /\ h_last # -1) => (done.seq # h_last /\ AllSeq(done.wseq, done.seq))

C3_Witness ==
    /\ TransactDone /\ done.ret # <<>> /\ Len(done.wseq) > 1
    /\ h_last # -1 /\ h_ok # -1 /\ h_ok # h_last

C5_FailureDistinct ==
    (TransactDone /\ done.how = "no_records") => done.outcome # Handler(done.op, <<>>)

\* C6: a non-empty response returned by transact has CRC residue 0 over its
\* bytes from the address through the checksum high byte inclusive.
C6_ReturnedResidueZero ==
    (TransactDone /\ done.ret # <<>>) => calc_crc(AddrToCrcHi(done.ret)) = 0

C8_RoundTrip ==
    (b_stage = "decoded" /\ b_kind = "int_to_bcd" /\ Len(Digits(b_n)) <= 2 * b_width)
        => b_dec = b_n

\* C9: an encoder that returned bytes returned exactly width bytes (3 for a
\* price) for a value of at most width*2 digits; a value with more digits
\* yields no bytes.
C9_EncodeFits ==
    b_stage = "encoded" =>
        /\ Len(Digits(b_n)) <= 2 * Width(b_kind, b_width)
        /\ Len(b_enc) = Width(b_kind, b_width)

\* C10 (as stated): for any noise, garbage and valid frames F1, F2 the
\* extractor fed noise + F1 + garbage + F2 yields exactly F1 and F2.
C10_Resync ==
    fx_stage = "extracted" => fx_out = <<fx_parts.f1, fx_parts.f2>>

NoStart(s) == ~Contains(s, STX)
\* SF is the last byte only, and neither ADR nor CTRL equals STX
CleanFrame(f) ==
    /\ \A i \in 1..(Len(f) - 1) : f[i] # SF
    /\ f[1] # STX /\ f[2] # STX

Resyncable ==
    /\ NoStart(fx_parts.noise) /\ NoStart(fx_parts.garbage)
    /\ CleanFrame(fx_parts.f1) /\ CleanFrame(fx_parts.f2)

\* C10 (amended): when the noise and the garbage hold no start-marker byte
\* (0x02) and each frame holds the stop marker (0xFA) only as its last byte
\* and no start marker in its two leading bytes, the extractor fed
\* noise + F1 + garbage + F2 yields exactly F1 and F2 and keeps nothing.
C10_ResyncClean ==
    (fx_stage = "extracted" /\ Resyncable) =>
        (fx_out = <<fx_parts.f1, fx_parts.f2>> /\ fx_buf = <<>>)

C10_Witness ==
    /\ fx_stage = "extracted" /\ Resyncable
    /\ Len(fx_parts.noise) = MaxNoise /\ Contains(fx_parts.noise, SF)
    /\ Len(fx_parts.garbage) = MaxGarbage
    /\ fx_parts.f1 # fx_parts.f2
    /\ fx_out = <<fx_parts.f1, fx_parts.f2>>

(***************************************************************************)
(* SpecDc1: DC1Parser.extract applied to a reply frame with a drawn body   *)
(***************************************************************************)
MaxBody   == 4
BodyBytes == {0, 1, 2, 3}

BodiesUpTo(n) == UNION {[1..k -> BodyBytes] : k \in 0..n}

\* a reply on the wire: STX, ADR, CTRL, SEQ, LNG, body, CRC-L, CRC-H, ETX, SF
ReplyFrame(addr, body) == BuildFrame(addr, 0, body)

InitDc1 ==
    /\ DriverInit /\ BcdIdle /\ FramerIdle /\ PollIdle
    /\ p_fn = "DC1Parser.extract"
    /\ \E b \in BodiesUpTo(MaxBody) : p_in = [body |-> b, frame |-> ReplyFrame(Addr(1), b)]
    /\ p_out = <<>> /\ p_stage = "drawn"

\* core.py lines 192-254: feed(frame), extract()
Dc1Extract ==
    /\ p_stage = "drawn" /\ p_fn = "DC1Parser.extract"
    /\ p_out' = DC1Extract(p_in.frame, 0)
    /\ p_stage' = "done"
    /\ UNCHANGED <<p_fn, p_in>>
    /\ UNCHANGED <<driverVars, bcdVars, framerVars, pollVars>>

NextDc1 == Dc1Extract

SpecDc1 == InitDc1 /\ [][NextDc1]_vars

\* the status of the first status record that lies wholly within body, walking
\* the records from offset off and stopping at a record that would read past
\* the end of body; -1 when there is none
RECURSIVE StatusWithin(_, _)
StatusWithin(body, off) ==
    IF off + 2 > Len(body) THEN -1
    ELSE LET trans  == body[off + 1]
             length == body[off + 2]
         IN  IF off + 2 + length > Len(body) THEN -1
             ELSE IF trans = DC1 /\ length >= 1 THEN body[off + 3]
             ELSE StatusWithin(body, off + 2 + length)

\* C11: a status that extract reports comes from a status record lying wholly
\* within the declared body; a record whose header or payload would read past
\* the body end stops decoding and contributes nothing.
C11_NoStatusPastBodyEnd ==
    (p_fn = "DC1Parser.extract" /\ p_stage = "done" /\ p_out # NoneVal) =>
        /\ StatusWithin(p_in.body, 0) # -1
        /\ p_out = IntVal(StatusWithin(p_in.body, 0))

\* C12: a request to authorize with both volume and amount set is answered
\* with HTTP 400 in one step that writes no frame, takes no lock, leaves the
\* sequence bit as it was and starts no call of the service.
C12_RejectBoth ==
    [][(done'.op = "authorize+both" /\ done' # done) =>
          /\ done'.how = "rejected" /\ done'.outcome = Http400
          /\ _seq' = _seq /\ _lock' = _lock /\ wire' = wire
          /\ wseq' = wseq /\ ntog' = ntog /\ pc' = pc /\ op' = op]_vars

C12_Witness ==
    /\ done.op = "authorize+both" /\ done.how = "rejected" /\ done.outcome = Http400
    /\ _seq = SEQ_ON /\ h_last # -1

\* packed BCD of n in width bytes: two decimal digits per byte, the tens digit
\* in the high nibble
PackedBcd(n, width) ==
    LET s == rjust(Digits(n), 2 * width)
    IN  [k \in 1..width |-> s[2 * k - 1] * 16 + s[2 * k]]

\* the body of a frame STX, ADR, CTRL, SEQ, LNG, body, ...
FrameBody(f) == SubSeq(f, 6, 5 + f[5])

InTransact(t) == pc[t] \in {"t_seq", "t_tog", "t_set", "t_lock", "t_loop", "t_read", "t_check"}

\* C13: authorize with only a volume writes the preset-volume record, whose
\* payload is the packed BCD of the volume scaled by 100, and after that call
\* goes on to write the authorize command record.
C13_PresetThenAuthorize ==
    /\ \A t \in Callers :
          (op[t] = "authorize+volume" /\ pc[t] = "t_read") =>
              FrameBody(Frame(op[t], seq[t])) = <<CD3, 4>> \o PackedBcd(v_int, 4)
    /\ \A t \in Callers :
          (op[t] = "authorize" /\ pc[t] = "t_read") =>
              FrameBody(Frame(op[t], seq[t])) = <<CD1, 1, DCC_AUTHORIZE>>
    /\ done.op = "authorize+volume" =>
          (op[done.t] = "authorize" /\ InTransact(done.t))

\* C14: when authorize, stop or reset gets from the channel an accepted frame
\* whose body is a status record with payload byte s, the request is answered
\* with telemetry of status s.
C14_StatusReturned ==
    \A s \in {0, 2} :
        (TransactDone /\ done.op \in {"authorize", "stop", "reset"}
           /\ done.ret = (IF s = 0 THEN AcceptedStatus0 ELSE AcceptedStatus2))
            => done.outcome = StatusDict(s)

(***************************************************************************)
(* SpecPrice: api_extended.py update_price builds its CD5 record from a     *)
(* drawn price map                                                          *)
(***************************************************************************)
\* nozzle numbers and prices (in hundredths) the maps are drawn from
PriceNozzles == {1, 2, 16, 17}
Prices       == {0, 5250, 1999}
PriceMaps    == UNION {[D -> Prices] : D \in SUBSET PriceNozzles}

InitPrice ==
    /\ DriverInit /\ BcdIdle /\ FramerIdle /\ PollIdle
    /\ p_fn = "update_price"
    /\ p_in \in PriceMaps
    /\ p_out = <<>>
    /\ p_stage = "drawn"

\* api_extended.py lines 51-59: ValueError, or the record handed to transact
UpdatePriceBlock ==
    /\ p_stage = "drawn" /\ p_fn = "update_price"
    /\ p_out' = IF BadPriceKeys(p_in) THEN ValueErr ELSE BlockVal(PriceBlock(p_in))
    /\ p_stage' = "done"
    /\ UNCHANGED <<p_fn, p_in>>
    /\ UNCHANGED <<driverVars, bcdVars, framerVars, pollVars>>

NextPrice == UpdatePriceBlock

SpecPrice == InitPrice /\ [][NextPrice]_vars

\* the 3-byte entry of nozzle nz in a CD5 record
PriceEntry(block, nz) == SubSeq(block, 3 * nz, 3 * nz + 2)

PriceBuilt == p_fn = "update_price" /\ p_stage = "done" /\ p_out.kind = "block"

\* C15: the record update_price builds has one 3-byte entry per nozzle 1..16
\* in ascending nozzle order; the entry of an unlisted nozzle is 00 00 00 and
\* the entry of a nozzle priced 52.50 is 05 25 00.
C15_PriceTable ==
    PriceBuilt =>
        /\ Len(p_out.val) = 2 + 3 * NOZZLE_MAX
        /\ \A nz \in 1..NOZZLE_MAX :
              /\ nz \notin DOMAIN p_in => PriceEntry(p_out.val, nz) = <<0, 0, 0>>
              /\ (nz \in DOMAIN p_in /\ p_in[nz] = 5250)
                     => PriceEntry(p_out.val, nz) = <<5, 37, 0>>

\* the nozzle numbers operation o was called with
NozzleNumbers(o) ==
    IF o \in AllowOps THEN {Nozzles(o)[i] : i \in 1..Len(Nozzles(o))}
    ELSE IF o \in PriceOps THEN DOMAIN PriceMap(o)
    ELSE {}

OutOfRange(o) == \E n \in NozzleNumbers(o) : n < 1 \/ n > 16

\* C16: update_price and allow_nozzles called with a nozzle number outside
\* 1..16 are rejected before any channel access: no caller ever runs transact
\* for such a call, and the step that answers it writes no frame, does not take
\* the lock and leaves the sequence bit and the rest of the driver state as
\* they were.
C16_RejectOutOfRange ==
    [][/\ \A t \in Callers : ~OutOfRange(op'[t])
       /\ (OutOfRange(done'.op) /\ done' # done) =>
             /\ done'.how = "rejected" /\ done'.outcome = ValueErr
             /\ _seq' = _seq /\ _lock' = _lock /\ wire' = wire
             /\ wseq' = wseq /\ ntog' = ntog /\ pc' = pc /\ op' = op
             /\ seq' = seq /\ attempts' = attempts /\ buf' = buf]_vars

C16_Witness ==
    /\ OutOfRange(done.op) /\ done.how = "rejected" /\ done.outcome = ValueErr
    /\ _seq = SEQ_ON /\ h_last # -1

(***************************************************************************)
(* SpecPoll: main.py pump_events, the polling loop of one websocket        *)
(***************************************************************************)
NPumps   == 2
MaxPolls == 6
\* config.py line 19, cut to the first NPumps ids
DEFAULT_PUMP_IDS == 1..NPumps

\* what driver.cd1 may return to return_status
PollReplies == {<<>>, AcceptedShort, AcceptedStatus0, AcceptedStatus2}

\* main.py lines 40-41: accept(), last_states = {}
InitPoll ==
    /\ DriverInit /\ BcdIdle /\ FramerIdle /\ PureIdle
    /\ last_states = <<>> /\ events = <<>> /\ sock = "open"
    /\ poll_at = 1 /\ polled = <<>>

\* main.py lines 44-49: one pass of the for loop. return_status runs one
\* transact; {"pump_id": pump_id, **data} raises TypeError unless data is a
\* mapping, and only WebSocketDisconnect is caught
PollPump ==
    /\ sock = "open"
    /\ poll_at \in DEFAULT_PUMP_IDS
    /\ Len(polled) < MaxPolls
    /\ \E r \in PollReplies :
          LET data == return_status(r)
          IN  /\ polled' = Append(polled, <<poll_at, data>>)
              /\ IF Truthy(data) /\ Get(last_states, poll_at, NoneVal) # data
                 THEN IF data.kind = "dict"
                      THEN /\ events' = Append(events, <<poll_at, data>>)
                           /\ last_states' =
                                 [q \in DOMAIN last_states \cup {poll_at} |->
                                     IF q = poll_at THEN data ELSE last_states[q]]
                           /\ poll_at' = poll_at + 1
                           /\ sock' = sock
                      ELSE /\ sock' = "TypeError"
                           /\ poll_at' = 0
                           /\ UNCHANGED <<events, last_states>>
                 ELSE /\ poll_at' = poll_at + 1
                      /\ UNCHANGED <<events, last_states, sock>>
    /\ _seq' = ToggleSeq(_seq)
    /\ UNCHANGED <<_lock, wire, pc, op, seq, tmp, attempts, buf, wseq, silent, ntog,
                   ncalls, done, h_last, h_ok>>
    /\ UNCHANGED <<bcdVars, framerVars, pureVars>>

\* main.py lines 43-44, 50: the for loop is through, sleep, next pass
Sleep ==
    /\ sock = "open"
    /\ poll_at = NPumps + 1
    /\ poll_at' = 1
    /\ UNCHANGED <<last_states, events, sock, polled>>
    /\ UNCHANGED <<driverVars, bcdVars, framerVars, pureVars>>

NextPoll == PollPump \/ Sleep

SpecPoll == InitPoll /\ [][NextPoll]_vars

\* the record of the last event sent for pump p, NoneVal when none was sent
RECURSIVE LastEmitted(_, _)
LastEmitted(ev, p) ==
    IF ev = <<>> THEN NoneVal
    ELSE IF ev[Len(ev)][1] = p THEN ev[Len(ev)][2]
    ELSE LastEmitted(SubSeq(ev, 1, Len(ev) - 1), p)

\* C17: whenever the poller has decoded a status record for a pump, it sends an
\* event and stores the record in the cache if and only if the record differs
\* from the last one it sent for that pump (status 0 included).
C17_EmitIffChanged ==
    [][polled' # polled =>
         LET e    == polled'[Len(polled')]
             last == LastEmitted(events, e[1])
         IN  e[2] # EmptyDict =>
                IF e[2].val # last.val \/ last = NoneVal
                THEN /\ events' = Append(events, e)
                     /\ e[1] \in DOMAIN last_states' /\ last_states'[e[1]] = e[2]
                ELSE events' = events /\ last_states' = last_states]_vars

RECURSIVE BitOr(_, _)
BitOr(a, b) ==
    IF a = 0 THEN b
    ELSE IF b = 0 THEN a
    ELSE (IF a % 2 = 1 \/ b % 2 = 1 THEN 1 ELSE 0) + 2 * BitOr(a \div 2, b \div 2)

\* C18: every frame transact has written is START, ADDR, CTRL, LEN, body,
\* CRC-LO, CRC-HI, END, STOP, of 8 bytes plus the body, and its CTRL byte is
\* the host-data bits OR'd with the sequence bit.
C18_WireFormat ==
    \A t \in Callers :
        pc[t] = "t_read" =>
            LET f    == Frame(op[t], seq[t])
                body == Body(op[t])
            IN  /\ Len(f) = 8 + Len(body)
                /\ f[1] = STX /\ f[2] = Addr(1)
                /\ f[3] = BitOr(CTRL_HOST_DATA, seq[t])
                /\ f[4] = Len(body)
                /\ SubSeq(f, 5, 4 + Len(body)) = body
                /\ f[Len(f) - 1] = ETX /\ f[Len(f)] = SF

(***************************************************************************)
(* SpecParse: pump_status_parser.py parse_frame and core.py _parse_single   *)
(* applied to a candidate byte range                                        *)
(***************************************************************************)
MaxPayload == 2
MaxJunk    == 1
MaxSkew    == 3

IndexErr        == [kind |-> "IndexError", val |-> 0]
FieldsVal(a, t) == [kind |-> "fields", val |-> a * 256 + t]

\* pump_status_parser.py lines 102-111
parse_frame(raw) ==
    IF Len(raw) < 9 THEN NoneVal
    ELSE IF raw[3] # STX \/ raw[Len(raw) - 1] # ETX \/ raw[Len(raw)] # SF THEN NoneVal
    ELSE LET length == raw[5]
         IN  IF 6 + length >= Len(raw) THEN IndexErr
             ELSE LET crc_l == raw[6 + length]
                      crc_h == raw[7 + length]
                      calc  == crc16_ccitt(Slice(raw, 0, 5 + length))
                  IN  IF calc # crc_h * 256 + crc_l THEN NoneVal
                      ELSE FieldsVal(raw[1], raw[4])

\* ADR, CTRL, STX, TRANS, LNG field, payload, CRC of these
Core(lng, payload) ==
    LET hdr == <<Addr(1), 129, STX, DC1, lng>> \o payload
        crc == crc16_ccitt(hdr)
    IN  hdr \o <<crc % 256, (crc \div 256) % 256>>

\* candidates: a frame as build_frame makes it, with bytes between the CRC and
\* ETX; with a length field above the payload length; with a damaged CRC
Candidates ==
    {Core(Len(p), p) \o j \o <<ETX, SF>> : p \in BodiesUpTo(MaxPayload), j \in BodiesUpTo(MaxJunk)}
    \cup {Core(Len(p[1]) + p[2], p[1]) \o <<ETX, SF>> : p \in BodiesUpTo(MaxPayload) \X (1..MaxSkew)}
    \cup {[Core(Len(p), p) EXCEPT ![Len(p) + 6] = (@ + 1) % 256] \o <<ETX, SF>> :
             p \in BodiesUpTo(MaxPayload)}

InitParse ==
    /\ DriverInit /\ BcdIdle /\ FramerIdle /\ PollIdle
    /\ p_fn \in {"parse_frame", "_parse_single"}
    /\ p_in \in Candidates
    /\ p_out = <<>>
    /\ p_stage = "drawn"

Parse ==
    /\ p_stage = "drawn" /\ p_fn \in {"parse_frame", "_parse_single"}
    /\ p_out' = IF p_fn = "parse_frame" THEN parse_frame(p_in) ELSE ParseSingle(p_in)
    /\ p_stage' = "done"
    /\ UNCHANGED <<p_fn, p_in>>
    /\ UNCHANGED <<driverVars, bcdVars, framerVars, pollVars>>

NextParse == Parse

SpecParse == InitParse /\ [][NextParse]_vars

\* the candidate is a whole frame for its own length field: 9 bytes plus the
\* body, the markers at their offsets, the checksum of ADR..body in place
WholeFrame(raw) ==
    /\ Len(raw) >= 9
    /\ Len(raw) = 9 + raw[5]
    /\ raw[3] = STX /\ raw[Len(raw) - 1] = ETX /\ raw[Len(raw)] = SF
    /\ crc16_ccitt(SubSeq(raw, 1, 5 + raw[5])) = raw[7 + raw[5]] * 256 + raw[6 + raw[5]]

Parsed == p_fn \in {"parse_frame", "_parse_single"} /\ p_stage = "done"

\* C19: a candidate that is shorter than 9 bytes plus its length field, or has
\* a marker off its fixed offset for that length field, or fails the checksum,
\* parses to Invalid: no fields and no exception.
C19_AllOrNothing ==
    (Parsed /\ ~WholeFrame(p_in)) =>
        p_out.kind = (IF p_fn = "parse_frame" THEN "None" ELSE "dict") /\ p_out.val <= 0

\* C20: what transact(addr, ...) returns, and the status return_status derives
\* from it, comes from a frame whose address byte is addr.
C20_SameAddress ==
    (TransactDone /\ done.ret # <<>>) => done.ret[2] = Addr(1)

\* C21: with concurrent callers the stored sequence bit is read and toggled
\* atomically with respect to channel order: of two transact calls that held
\* the channel one right after the other, the later one sent the other bit.
C21_ChannelOrderAlternate ==
    (TransactDone /\ h_last # -1) => done.seq # h_last

\* the transact call of caller t, in the attempt loop
InLoop(t) == pc[t] \in {"t_loop", "t_read", "t_check"}

\* C22: transact stops at the first valid response. While a call runs, every
\* attempt before the current one has failed and at most 3 frames were
\* written; the call returns a response on the attempt that passes validation,
\* having written one frame per failed attempt plus one, and returns b"" only
\* after 3 failed attempts and 3 writes.
C22_StopAtFirstValid ==
    [][/\ \A t \in Callers :
             InLoop(t)' =>
                 /\ Len(wseq'[t]) <= 3
                 /\ Len(wseq'[t]) = attempts'[t] + (IF pc'[t] = "t_loop" THEN 0 ELSE 1)
       /\ \A t \in Callers :
             (InLoop(t) /\ ~InLoop(t)') =>
                 /\ done'.t = t /\ done'.wseq = wseq[t]
                 /\ Len(wseq[t]) \in 1..3
                 /\ IF done'.ret # <<>>
                    THEN /\ pc[t] = "t_check" /\ done'.ret = buf[t]
                         /\ Validate(buf[t]) = "ok"
                         /\ Len(wseq[t]) = attempts[t] + 1
                    ELSE attempts[t] = 3 /\ Len(wseq[t]) = 3
       /\ \A t \in Callers :
             (pc[t] = "t_check" /\ Validate(buf[t]) = "ok") => ~InLoop(t)']_vars

C22_Witness ==
    /\ TransactDone /\ done.ret # <<>> /\ Len(done.wseq) = 2 /\ ~done.silent
    /\ h_last # -1

\* C23: the lock is released on every way out of transact and held throughout
\* a call's attempts: a caller holds the lock exactly while it is between
\* acquiring the channel and returning, and when no call is in progress the
\* lock is free.
C23_LockReleased ==
    /\ \A t \in Callers : (_lock = t) <=> InChannel(t)
    /\ (\A t \in Callers : pc[t] = "idle") => _lock = 0
    /\ (TransactDone /\ pc[done.t] = "idle") => _lock # done.t

C23_Witness ==
    /\ TransactDone /\ done.how = "exhausted" /\ h_ok # -1
    /\ _lock = 0 /\ \A t \in Callers : pc[t] = "idle"

MaxBlocks == 3

\* Mutation: the records are joined last to first
RECURSIVE JoinReversed(_)
JoinReversed(blocks) ==
    IF blocks = <<>> THEN <<>> ELSE JoinReversed(Tail(blocks)) \o Head(blocks)

\* line 82: b"".join(trans_blocks)
RECURSIVE Join(_)
Join(blocks) == IF blocks = <<>> THEN <<>> ELSE Head(blocks) \o Join(Tail(blocks))

\* records the lists are drawn from: CD1 RETURN_STATUS, a CD3 preset, two CD2
\* records, the longer with 198 nozzle numbers
Records ==
    {<<CD1, 1, DCC_RETURN_STATUS>>,
     <<CD3, 4>> \o int_to_bcd(v_int, 4),
     AllowBlock(<<1, 2>>),
     AllowBlock([i \in 1..198 |-> 1])}

BlockLists == UNION {[1..k -> Records] : k \in 0..MaxBlocks}

InitBuild ==
    /\ DriverInit /\ BcdIdle /\ FramerIdle /\ PollIdle
    /\ p_fn = "transact.build"
    /\ \E bl \in BlockLists, sq \in {0, SEQ_ON} : p_in = [trans_blocks |-> bl, seq |-> sq]
    /\ p_out = <<>>
    /\ p_stage = "drawn"

\* lines 82-92: bytes([addr, ctrl, seq, lng]) raises ValueError for lng > 255
Build ==
    /\ p_stage = "drawn" /\ p_fn = "transact.build"
    /\ LET body == Join(p_in.trans_blocks)
       IN  p_out' = IF Len(body) > 255 THEN ValueErr
                    ELSE BlockVal(BuildFrame(Addr(1), p_in.seq, body))
    /\ p_stage' = "done"
    /\ UNCHANGED <<p_fn, p_in>>
    /\ UNCHANGED <<driverVars, bcdVars, framerVars, pollVars>>

NextBuild == Build

SpecBuild == InitBuild /\ [][NextBuild]_vars

\* number of bytes in the records before the k-th
RECURSIVE Offset(_, _)
Offset(blocks, k) == IF k = 1 THEN 0 ELSE Offset(blocks, k - 1) + Len(blocks[k - 1])

FrameBuilt == p_fn = "transact.build" /\ p_stage = "done" /\ p_out.kind = "block"

\* C25: the body of the frame built from a list of records is the records in
\* the order given, each byte once, and the length byte of the frame is the
\* number of body bytes.
C25_BodyInOrder ==
    FrameBuilt =>
        LET f      == p_out.val
            blocks == p_in.trans_blocks
            n      == Len(blocks)
        IN  /\ f[5] = Len(f) - 9
            /\ f[5] = Offset(blocks, n + 1)
            /\ \A k \in 1..n : \A i \in 1..Len(blocks[k]) :
                   f[5 + Offset(blocks, k) + i] = blocks[k][i]

C25_Witness ==
    /\ FrameBuilt /\ Len(p_in.trans_blocks) = 3
    /\ p_in.trans_blocks[1] = <<CD3, 4>> \o int_to_bcd(v_int, 4)
    /\ p_in.trans_blocks[2] = <<CD1, 1, DCC_RETURN_STATUS>>
    /\ Len(p_in.trans_blocks[3]) = 200
    /\ p_in.seq = SEQ_ON

\* C26: a frame built by transact's own construction (lines 88-92), when it
\* comes back as the response, passes transact's receive validation.
C26_BuildValidateAgree ==
    FrameBuilt => Validate(p_out.val) = "ok"

(***************************************************************************)
(* SpecChunks: a byte stream fed to a frame extractor in two chunks, the    *)
(* frames taken out after each chunk (pump_status_parser.py lines 132-137)  *)
(***************************************************************************)
MaxLead == 1

Streams == {n \o f1 \o f2 : n \in BytesUpTo(MaxLead), f1 \in ValidFrames, f2 \in ValidFrames}

\* frames() / get_frames() of an extractor of kind k whose buffer holds b
Extract(k, b) == IF k = "_Extractor" THEN ExtractorFrames(b, <<>>) ELSE get_frames(b, <<>>)

InitChunks ==
    /\ DriverInit /\ BcdIdle /\ PureIdle /\ PollIdle
    /\ fx_kind \in {"_Extractor", "FrameExtractor"}
    /\ \E s \in Streams : \E c \in 0..Len(s) : fx_parts = [stream |-> s, cut |-> c]
    /\ fx_buf = <<>> /\ fx_out = <<>> /\ fx_stage = "chunk1"

\* feed(chunk): the bytes up to the cut, then the rest
FeedChunk ==
    /\ fx_stage \in {"chunk1", "chunk2"}
    /\ fx_buf' = fx_buf \o (IF fx_stage = "chunk1"
                            THEN SubSeq(fx_parts.stream, 1, fx_parts.cut)
                            ELSE SubSeq(fx_parts.stream, fx_parts.cut + 1, Len(fx_parts.stream)))
    /\ fx_stage' = IF fx_stage = "chunk1" THEN "fed1" ELSE "fed2"
    /\ UNCHANGED <<fx_kind, fx_parts, fx_out>>
    /\ UNCHANGED <<driverVars, bcdVars, pureVars, pollVars>>

\* frames() / get_frames() after the chunk
TakeFrames ==
    /\ fx_stage \in {"fed1", "fed2"}
    /\ LET r == Extract(fx_kind, fx_buf)
       IN  /\ fx_out' = fx_out \o r.out
           /\ fx_buf' = r.buf
    /\ fx_stage' = IF fx_stage = "fed1" THEN "chunk2" ELSE "taken"
    /\ UNCHANGED <<fx_kind, fx_parts>>
    /\ UNCHANGED <<driverVars, bcdVars, pureVars, pollVars>>

NextChunks == FeedChunk \/ TakeFrames

SpecChunks == InitChunks /\ [][NextChunks]_vars

\* C27: the candidates an extractor emits for a stream fed in two chunks, the
\* frames taken after each, are those it emits for the stream fed at once, and
\* the bytes it keeps are the same.
C27_ChunkingInvariant ==
    fx_stage = "taken" =>
        /\ fx_out = Extract(fx_kind, fx_parts.stream).out
        /\ fx_buf = Extract(fx_kind, fx_parts.stream).buf

\* the stream fed to the extractor in SpecFramer
FedStream == fx_parts.noise \o fx_parts.f1 \o fx_parts.garbage \o fx_parts.f2

\* least 1-based position >= from at which c occurs in s, 0 if none
Occurs(s, c, from) ==
    LET at == {p \in from..(Len(s) - Len(c) + 1) : SubSeq(s, p, p + Len(c) - 1) = c}
    IN  IF at = {} THEN 0 ELSE CHOOSE p \in at : \A q \in at : p <= q

\* the candidates of out lie in s from position from on, in order, none
\* overlapping the one before
RECURSIVE Located(_, _, _)
Located(s, out, from) ==
    \/ out = <<>>
    \/ /\ Occurs(s, Head(out), from) # 0
       /\ Located(s, Tail(out), Occurs(s, Head(out), from) + Len(Head(out)))

\* s is the tail of t
IsSuffix(s, t) == Len(s) <= Len(t) /\ SubSeq(t, Len(t) - Len(s) + 1, Len(t)) = s

RECURSIVE TotalLen(_)
TotalLen(out) == IF out = <<>> THEN 0 ELSE Len(Head(out)) + TotalLen(Tail(out))

\* C28: the extraction loop ends for every buffer it is run on, leaving an
\* unread tail of the input that is shorter by at least the bytes emitted; each
\* candidate it emits is a contiguous range of the input with the start marker
\* at offset 2, the stop marker as its last byte and no other stop marker after
\* offset 2; the candidates are in input order and do not overlap.
C28_CandidateShape ==
    /\ fx_stage = "extracted" =>
          /\ IsSuffix(fx_buf, FedStream)
          /\ Len(fx_buf) + TotalLen(fx_out) <= Len(FedStream)
          /\ \A k \in 1..Len(fx_out) :
                LET c == fx_out[k]
                IN  /\ Len(c) >= 4
                    /\ c[3] = STX /\ c[Len(c)] = SF
                    /\ \A i \in 4..(Len(c) - 1) : c[i] # SF
          /\ Located(FedStream, fx_out, 1)

C28_Witness ==
    /\ fx_stage = "extracted" /\ fx_kind = "_Extractor"
    /\ Len(fx_out) >= 2
    /\ fx_out[1] # fx_parts.f1 /\ fx_out[Len(fx_out)] # fx_parts.f2
    /\ Contains(fx_parts.noise, STX) /\ Contains(fx_parts.garbage, SF)

\* C29: a return_status request whose exchange returned an accepted frame
\* carrying a status record with status byte 0 (NOT_PROGRAMMED) is not answered
\* with the no-response error.
C29_Status0NotNoResponse ==
    (TransactDone /\ done.op = "return_status" /\ done.ret = AcceptedStatus0)
        => done.outcome # Http504

\* the values return_status gave for pump p, in the order of the polls
RECURSIVE PolledOf(_, _)
PolledOf(pl, p) ==
    IF pl = <<>> THEN <<>>
    ELSE IF Head(pl)[1] = p THEN <<Head(pl)[2]>> \o PolledOf(Tail(pl), p)
    ELSE PolledOf(Tail(pl), p)

\* no event in ev is for pump p
Silent(ev, p) == \A i \in 1..Len(ev) : ev[i][1] # p

\* C30: a poll whose query returned nothing decodable sends no event and leaves
\* the cache as it was; a poll that decodes the record last sent for the pump
\* sends no event, whatever failed polls lie between; and a pump all of whose
\* polls failed has no event.
C30_FailedTickSilent ==
    [][polled' # polled =>
         LET e    == polled'[Len(polled')]
             last == LastEmitted(events, e[1])
         IN  /\ e[2] = EmptyDict => (events' = events /\ last_states' = last_states)
             /\ (e[2] # EmptyDict /\ e[2] = last) => events' = events
             /\ \A p \in DEFAULT_PUMP_IDS :
                   (\A i \in 1..Len(PolledOf(polled', p)) : PolledOf(polled', p)[i] = EmptyDict)
                       => Silent(events', p)]_vars

\* pump 1 answered, then failed, then answered the same again, while pump 2
\* never answered
C30_Witness ==
    /\ sock = "open"
    /\ Len(PolledOf(polled, 1)) = 3
    /\ PolledOf(polled, 1)[1] = PolledOf(polled, 1)[3]
    /\ PolledOf(polled, 1)[1] # EmptyDict
    /\ PolledOf(polled, 1)[2] = EmptyDict
    /\ Len(PolledOf(polled, 2)) = 2
    /\ \A i \in 1..2 : PolledOf(polled, 2)[i] = EmptyDict

(***************************************************************************)
(* SpecShared: concurrent requests, authorize with a volume among them     *)
(* (core.py lines 151-168 on driver.py lines 73-143, 189-221)              *)
(***************************************************************************)
NextShared == \E t \in Callers : Call(t, "shared") \/ Step(t, "shared")

SpecShared == Init /\ [][NextShared]_vars

\* caller t's authorize has returned from the transact of its preset and has
\* not yet entered the with block of the transact of its AUTHORIZE command
\* (on the "shared" line authorize is only requested with a volume)
AfterPreset(t) ==
    /\ op[t] = "authorize"
    /\ pc[t] \in {"t_seq", "t_tog", "t_set", "t_lock"}

\* this step is caller u writing a frame to the port
WritesFrame(u) ==
    \/ pc[u] = "t_loop" /\ pc'[u] = "t_read"
    \/ pc[u] = "tc_write" /\ pc'[u] = "tc_read"

\* C31: between the preset frame and the AUTHORIZE frame written by one
\* authorize call, no other caller writes a frame to the channel.
C31_PresetAuthorizeAtomic ==
    [][\A t \in Callers : \A u \in Callers \ {t} :
          AfterPreset(t) => ~WritesFrame(u)]_vars

====
